---- MODULE Spec2Model ----
(***************************************************************************)
(* A model of llamavault's encrypted credential vault                      *)
(* (src/src/llamavault/vault.py, src/src/llamavault/credential.py).        *)
(*                                                                         *)
(* The state is one vault directory (config.json, vault.enc, the temp      *)
(* files _save_vault leaves behind, the backups directory) and the Vault   *)
(* handles opened on it.  Every public method of Vault is one action; an   *)
(* action takes the injected fault (an I/O error raised by a write, or the *)
(* process stopping at a step) as an input, so that one step of the model  *)
(* is one whole call, however it ends.                                     *)
(***************************************************************************)
EXTENDS Integers, Sequences, FiniteSets, TLC

\* ------------------------------------------------------------- domains

Handles == {"A", "B"}

\* Credential names are sequences of characters (export_env rewrites them).
api_key == <<"a", "p", "i", "-", "k", "e", "y">>
db_url == <<"d", "b", " ", "u", "r", "l">>
Names == {api_key, db_url}

Values == {"x", "y"}

\* A metadata dict is a set of <<key, value>> pairs with distinct keys.
Metas == {{}, {<<"env", "prod">>}}

Passwords == {"p1", "p2"}
\* A password that is None or "" ("not password" in Python).
NoPassword == "None"

\* datetime.now() reads the clock, which counts ticks; NoTime is a timestamp
\* that is None.
MaxClock == 3
NoTime == -1

\* strftime("%Y%m%d_%H%M%S") keeps whole seconds: the ticks in one second.
TICKS_PER_SECOND == 2

\* The number of injected faults in one behaviour.
MaxFaults == 1

\* The number of calls (constructions and method calls) in one behaviour.
MaxCalls == 4

\* ------------------------------------------------------------- strings

\* str.upper() on the characters credential names are made of.
UpperCase ==
    [c \in {"a", "b", "d", "e", "i", "k", "l", "p", "r", "u", "y"} |->
        CASE c = "a" -> "A" [] c = "b" -> "B" [] c = "d" -> "D" [] c = "e" -> "E"
          [] c = "i" -> "I" [] c = "k" -> "K" [] c = "l" -> "L" [] c = "p" -> "P"
          [] c = "r" -> "R" [] c = "u" -> "U" [] c = "y" -> "Y"]

upper(str) ==
    [i \in DOMAIN str |-> IF str[i] \in DOMAIN UpperCase THEN UpperCase[str[i]]
                          ELSE str[i]]

\* str.replace(old, new) for one-character old and new.
replace(str, old, new) ==
    [i \in DOMAIN str |-> IF str[i] = old THEN new ELSE str[i]]

\* datetime.strftime("%Y%m%d_%H%M%S") of clock t: the second t falls in.
strftime(t) == t \div TICKS_PER_SECOND

\* ------------------------------------------------------------- files

Absent == [kind |-> "absent"]
\* A file whose write was cut short: an incomplete ciphertext or JSON text.
Truncated == [kind |-> "truncated"]

DEFAULT_BACKUP_COUNT == 5

\* "version" in the configuration the code creates.
CONFIG_VERSION == 1

DefaultSettings ==
    [log_access |-> TRUE, auto_backup |-> TRUE, backup_count |-> DEFAULT_BACKUP_COUNT]

\* The settings an operator can leave in config.json by editing it.
SettingsChoices ==
    { DefaultSettings,
      [log_access |-> FALSE, auto_backup |-> TRUE, backup_count |-> DEFAULT_BACKUP_COUNT],
      [log_access |-> TRUE, auto_backup |-> TRUE, backup_count |-> 1],
      [log_access |-> TRUE, auto_backup |-> FALSE, backup_count |-> 1],
      [log_access |-> TRUE, auto_backup |-> TRUE, backup_count |-> 0] }

VARIABLES
    config_file,    \* config.json: Absent, Truncated or [kind, version, salt, settings]
    vault_file,     \* vault.enc: Absent, Truncated or [kind, key, data]
    tmp_files,      \* what the temp files left in vault_dir hold
    backups,        \* backups/vault_<timestamp>.enc: timestamp -> file
    open,           \* open[h]: handle h has been constructed
    password,       \* self._password
    config,         \* self._config
    credentials,    \* self._credentials: name -> Credential
    auto_save,      \* self.auto_save
    returned,       \* the dict the caller of h got from get_all_credentials()
    now,            \* the clock datetime.now() reads
    faults,         \* the number of faults injected so far
    calls,          \* the number of calls made so far
    history_ok,     \* init succeeded and no operation failed since
    last,           \* the last call: its arguments, how it ended, its result
    credential_files,   \* LlamaVault: vault_path/<name>.json, name -> content
    audit_log       \* LlamaVault: the lines of vault_path/audit.log

vars == <<config_file, vault_file, tmp_files, backups, open, password, config,
          credentials, auto_save, returned, now, faults, calls, history_ok, last,
          credential_files, audit_log>>

disk == <<config_file, vault_file, tmp_files, backups>>

\* The files of a LlamaVault (core.py), which the Vault never touches.
core == <<credential_files, audit_log>>

\* ------------------------------------------------------------- salts

\* The salts some file or handle holds.
UsedSalts ==
    (IF config_file.kind = "json" THEN {config_file.salt} ELSE {})
    \cup (IF vault_file.kind = "blob" THEN {vault_file.key[2]} ELSE {})
    \cup {config[h].salt : h \in {g \in Handles : open[g]}}
    \cup {backups[t].key[2] : t \in {u \in DOMAIN backups : backups[u].kind = "blob"}}

\* A salt that is not drawn anew: the one in config.json, when there is one.
urandom_repeating == IF config_file.kind = "json" THEN config_file.salt ELSE 0

\* os.urandom(16): a salt no file and no handle holds (16 random bytes do not
\* repeat); the least such number, so that equal states stay equal.
urandom ==
    CHOOSE s \in 0..Cardinality(UsedSalts) :
        /\ s \notin UsedSalts
        /\ \A t \in 0..(s - 1) : t \in UsedSalts

\* ------------------------------------------------------------- Credential

Credential(name, value, created_at, updated_at, metadata, last_accessed) ==
    [name |-> name, value |-> value, created_at |-> created_at,
     updated_at |-> updated_at, last_accessed |-> last_accessed,
     metadata |-> metadata]

JsonNull == <<"null">>
\* A timestamp field that is no ISO date.
Corrupt == <<"not a date">>
isoformat(t) == <<"iso", t>>

\* A to_dict that leaves the metadata out.
to_dict_without_metadata(c) ==
    [name |-> c.name,
     value |-> c.value,
     created_at |-> IF c.created_at # NoTime THEN isoformat(c.created_at) ELSE JsonNull,
     updated_at |-> IF c.updated_at # NoTime THEN isoformat(c.updated_at) ELSE JsonNull,
     last_accessed |-> IF c.last_accessed # NoTime THEN isoformat(c.last_accessed) ELSE JsonNull,
     metadata |-> {}]

to_dict(c) ==
    [name |-> c.name,
     value |-> c.value,
     created_at |-> IF c.created_at # NoTime THEN isoformat(c.created_at) ELSE JsonNull,
     updated_at |-> IF c.updated_at # NoTime THEN isoformat(c.updated_at) ELSE JsonNull,
     last_accessed |-> IF c.last_accessed # NoTime THEN isoformat(c.last_accessed) ELSE JsonNull,
     metadata |-> c.metadata]

\* parse_datetime(dt_str) at clock t.
parse_datetime(dt_str, t) ==
    IF dt_str = JsonNull THEN NoTime
    ELSE IF dt_str[1] = "iso" THEN dt_str[2]
    ELSE t

\* Credential.from_dict(data) at clock t.
from_dict(data, t) ==
    LET created_at == parse_datetime(data.created_at, t)
        updated_at == parse_datetime(data.updated_at, t)
        last_accessed == parse_datetime(data.last_accessed, t)
    IN Credential(data.name, data.value,
                  IF created_at # NoTime THEN created_at ELSE t,
                  IF updated_at # NoTime THEN updated_at ELSE t,
                  data.metadata, last_accessed)

\* A Credential.update_value that stamps the time and keeps the old value.
update_value_keeps_value(c, value, t) == [c EXCEPT !.updated_at = t]

\* Credential.update_value(value) at clock t.
update_value(c, value, t) == [c EXCEPT !.value = value, !.updated_at = t]

\* ------------------------------------------------------------- the cipher

\* A key derivation that does not depend on the password.
_derive_key_from_salt(pw, salt) == <<NoPassword, salt>>

\* PBKDF2-HMAC-SHA256 of (password, salt): distinct inputs, distinct keys.
_derive_key(pw, salt) == <<pw, salt>>

\* An encrypt that hands the data back as they are.
encrypt_nothing(key, data) == [kind |-> "plain", key |-> key, data |-> data]

\* Fernet(key).encrypt(data)
encrypt(key, data) == [kind |-> "blob", key |-> key, data |-> data]

\* A decrypt that accepts a whole token whatever the key.
decrypts_with_any_key(key, file) == file.kind = "blob"

\* Fernet(key).decrypt(file) succeeds on a whole token made with the same key.
decrypts(key, file) == file.kind = "blob" /\ file.key = key

\* ------------------------------------------------------------- faults

\* What can go wrong in _save_vault: the write of the temp file or the move
\* raises (disk full, permissions), or the process stops in the write or
\* between the write and the move.
VaultFaults ==
    {"tmp_write_fails", "move_fails", "crash_in_tmp_write", "crash_before_move"}

\* What can go wrong in _save_config: open(config_path, "w") raises, json.dump
\* raises after open() has truncated the file, or the process stops there.
ConfigFaults ==
    {"config_open_fails", "config_write_fails", "crash_in_config_write"}

Faults == {"none"} \cup VaultFaults \cup ConfigFaults

CanInject(fault, allowed) ==
    fault = "none" \/ (fault \in allowed /\ faults < MaxFaults)

Injected(fault) == IF fault = "none" THEN faults ELSE faults + 1

\* ------------------------------------------------------------- persistence

\* Vault._load_config: the file's content, or the default configuration with a
\* new salt when the file is missing or cannot be parsed.
_load_config ==
    IF config_file.kind = "json"
    THEN [version |-> config_file.version, salt |-> config_file.salt,
          settings |-> config_file.settings]
    ELSE [version |-> CONFIG_VERSION, salt |-> urandom, settings |-> DefaultSettings]

\* Vault._save_config of configuration cfg: the file afterwards and how the
\* call ended.
_save_config(cfg, fault) ==
    CASE fault = "config_open_fails" ->
            [config_file |-> config_file, status |-> "OSError"]
      [] fault = "config_write_fails" ->
            [config_file |-> Truncated, status |-> "OSError"]
      [] fault = "crash_in_config_write" ->
            [config_file |-> Truncated, status |-> "crashed"]
      [] OTHER ->
            [config_file |-> [kind |-> "json", version |-> cfg.version,
                              salt |-> cfg.salt,
                              settings |-> cfg.settings],
             status |-> "ok"]

\* A _load_vault that takes any store it can decrypt for an empty one.
_load_vault_empty(pw, cfg) ==
    [ok |-> decrypts(_derive_key(pw, cfg.salt), vault_file), credentials |-> <<>>]

\* Vault._load_vault with password pw and configuration cfg: whether the store
\* decrypts, and the credentials parsed from it.
_load_vault(pw, cfg) ==
    IF decrypts(_derive_key(pw, cfg.salt), vault_file)
    THEN [ok |-> TRUE,
          credentials |-> [k \in DOMAIN vault_file.data |->
                              from_dict(vault_file.data[k], now)]]
    ELSE [ok |-> FALSE, credentials |-> <<>>]

\* A _save_vault that writes the ciphertext straight onto vault.enc.
_save_vault_in_place(pw, cfg, creds, fault) ==
    LET credentials_data == [k \in DOMAIN creds |-> to_dict(creds[k])]
        encrypted_data == encrypt(_derive_key(pw, cfg.salt), credentials_data)
    IN  CASE pw = NoPassword ->
                [vault_file |-> vault_file, tmp_files |-> tmp_files,
                 status |-> "EncryptionError"]
          [] fault = "tmp_write_fails" ->
                [vault_file |-> Truncated, tmp_files |-> tmp_files,
                 status |-> "EncryptionError"]
          [] fault = "crash_in_tmp_write" ->
                [vault_file |-> Truncated, tmp_files |-> tmp_files,
                 status |-> "crashed"]
          [] OTHER ->
                [vault_file |-> encrypted_data, tmp_files |-> tmp_files,
                 status |-> "ok"]

\* Vault._save_vault of credentials creds under password pw and configuration
\* cfg: vault.enc and the temp files afterwards, and how the call ended.  The
\* ciphertext goes to a temp file in vault_dir, which is then moved onto
\* vault.enc.
_save_vault(pw, cfg, creds, fault) ==
    LET credentials_data == [k \in DOMAIN creds |-> to_dict(creds[k])]
        encrypted_data == encrypt(_derive_key(pw, cfg.salt), credentials_data)
    IN  CASE pw = NoPassword ->      \* None.encode() raises inside the try
                [vault_file |-> vault_file, tmp_files |-> tmp_files,
                 status |-> "EncryptionError"]
          [] fault = "tmp_write_fails" ->
                [vault_file |-> vault_file, tmp_files |-> tmp_files \cup {"partial"},
                 status |-> "EncryptionError"]
          [] fault = "crash_in_tmp_write" ->
                [vault_file |-> vault_file, tmp_files |-> tmp_files \cup {"partial"},
                 status |-> "crashed"]
          [] fault = "move_fails" ->
                [vault_file |-> vault_file, tmp_files |-> tmp_files \cup {"complete"},
                 status |-> "EncryptionError"]
          [] fault = "crash_before_move" ->
                [vault_file |-> vault_file, tmp_files |-> tmp_files \cup {"complete"},
                 status |-> "crashed"]
          [] OTHER ->
                [vault_file |-> encrypted_data, tmp_files |-> tmp_files,
                 status |-> "ok"]

\* A call that does not save.
NotSaved == [vault_file |-> vault_file, tmp_files |-> tmp_files, status |-> "ok"]

\* Vault.__init__(vault_dir, password, auto_save) with LLAMAVAULT_PASSWORD = env:
\* the error it raises ("none": it returns) and the fields of the new handle.
Vault(pw_arg, env) ==
    LET pw == IF pw_arg # NoPassword THEN pw_arg ELSE env
        cfg == _load_config
        exists == vault_file.kind # "absent"
        loaded == _load_vault(pw, cfg)
    IN  IF exists /\ (pw = NoPassword \/ ~loaded.ok)
        THEN [error |-> "AuthenticationError", password |-> NoPassword,
              config |-> cfg, credentials |-> <<>>]
        ELSE [error |-> "none", password |-> pw, config |-> cfg,
              credentials |-> IF exists THEN loaded.credentials ELSE <<>>]

\* What Vault.__init__ writes to the log: the warning of _load_config when
\* config.json cannot be parsed, the error of _load_vault when the store does
\* not decrypt.  (Credential.from_dict and parse_datetime log nothing.)
ConfigWarning == <<"warning", "Failed to load config, using defaults">>
LoadError == <<"error", "Failed to load vault">>

Logged(pw_arg, env) ==
    LET pw == IF pw_arg # NoPassword THEN pw_arg ELSE env
        exists == vault_file.kind # "absent"
    IN  IF exists /\ pw = NoPassword THEN {}
        ELSE (IF config_file.kind = "truncated" THEN {ConfigWarning} ELSE {})
             \cup (IF exists /\ ~_load_vault(pw, _load_config).ok
                   THEN {LoadError} ELSE {})

\* ------------------------------------------------------------- bookkeeping

\* The configuration field of a handle that does not exist.
ClosedConfig ==
    [version |-> CONFIG_VERSION, salt |-> NoTime, settings |-> DefaultSettings]

\* The caller's dict before any get_all_credentials(): an empty one.
NoDict == [keys |-> {}, shared |-> {}]

NoArgs == <<>>
NoResult == <<>>

\* The record of a call.
Call(op, h, args, fault, outcome, result) ==
    [op |-> op, h |-> h, args |-> args, fault |-> fault, outcome |-> outcome,
     result |-> result]

\* The fields of handle h after a call that ended with `status`: as the call
\* left them, or gone with the process when it stopped.  `shared` are the keys
\* of the caller's dict whose Credential object is still the vault's.
Finish(h, status, pw, cfg, creds, shared) ==
    IF status = "crashed"
    THEN /\ open' = [open EXCEPT ![h] = FALSE]
         /\ password' = [password EXCEPT ![h] = NoPassword]
         /\ config' = [config EXCEPT ![h] = ClosedConfig]
         /\ credentials' = [credentials EXCEPT ![h] = <<>>]
         /\ auto_save' = [auto_save EXCEPT ![h] = TRUE]
         /\ returned' = [returned EXCEPT ![h] = NoDict]
    ELSE /\ open' = open
         /\ password' = [password EXCEPT ![h] = pw]
         /\ config' = [config EXCEPT ![h] = cfg]
         /\ credentials' = [credentials EXCEPT ![h] = creds]
         /\ auto_save' = auto_save
         /\ returned' = [returned EXCEPT ![h].shared = shared]

handle == <<open, password, config, credentials, auto_save, returned>>

\* A del that removes nothing.
Del_nothing(d, k) == d

\* d[k] = v
Put(d, k, v) == [x \in DOMAIN d \cup {k} |-> IF x = k THEN v ELSE d[x]]

\* del d[k]
Del(d, k) == [x \in DOMAIN d \ {k} |-> d[x]]

\* ------------------------------------------------------------- Init

Init ==
    /\ config_file = Absent
    /\ vault_file = Absent
    /\ tmp_files = {}
    /\ backups = <<>>
    /\ open = [h \in Handles |-> FALSE]
    /\ password = [h \in Handles |-> NoPassword]
    /\ config = [h \in Handles |-> ClosedConfig]
    /\ credentials = [h \in Handles |-> <<>>]
    /\ auto_save = [h \in Handles |-> TRUE]
    /\ returned = [h \in Handles |-> NoDict]
    /\ credential_files = <<>>
    /\ audit_log = <<>>
    /\ now = 0
    /\ faults = 0
    /\ calls = 0
    /\ history_ok = FALSE
    /\ last = Call("start", "A", NoArgs, "none", "ok", NoResult)

\* ------------------------------------------------------------- the handle

\* vault = Vault(vault_dir, password=pw_arg, auto_save=autosave), with the
\* environment variable LLAMAVAULT_PASSWORD set to env (NoPassword: unset).
\* last.args.password is the password the constructor takes: pw_arg or env;
\* last.result is what the constructor logs.
Construct(h, pw_arg, env, autosave) ==
    /\ ~open[h]
    /\ calls < MaxCalls
    /\ calls' = calls + 1
    /\ LET v == Vault(pw_arg, env)
       IN  /\ IF v.error = "none"
              THEN /\ open' = [open EXCEPT ![h] = TRUE]
                   /\ password' = [password EXCEPT ![h] = v.password]
                   /\ config' = [config EXCEPT ![h] = v.config]
                   /\ credentials' = [credentials EXCEPT ![h] = v.credentials]
                   /\ auto_save' = [auto_save EXCEPT ![h] = autosave]
                   /\ UNCHANGED returned
              ELSE UNCHANGED handle
           /\ last' = Call("Vault", h,
                           [password |-> IF pw_arg # NoPassword THEN pw_arg ELSE env,
                            auto_save |-> autosave],
                           "none", v.error, Logged(pw_arg, env))
           /\ history_ok' = (history_ok /\ v.error = "none")
    /\ UNCHANGED <<disk, now, faults>>
    /\ UNCHANGED core

\* The handle is dropped (the process exits); nothing is flushed.
Drop(h) ==
    /\ open[h]
    /\ Finish(h, "crashed", NoPassword, ClosedConfig, <<>>, {})
    /\ last' = Call("drop", h, NoArgs, "none", "ok", NoResult)
    /\ UNCHANGED <<disk, now, faults, calls, history_ok>>
    /\ UNCHANGED core

\* Time passes between two calls.
Tick ==
    /\ now < MaxClock
    /\ now' = now + 1
    /\ last' = Call("tick", "A", NoArgs, "none", "ok", NoResult)
    /\ UNCHANGED <<disk, handle, faults, calls, history_ok>>
    /\ UNCHANGED core

\* ------------------------------------------------------------- Vault methods

\* An init that overwrites an existing vault whatever `force` is.
init_without_check(h, force, fault) ==
    /\ open[h]
    /\ calls < MaxCalls
    /\ calls' = calls + 1
    /\ LET cfg == [version |-> CONFIG_VERSION, salt |-> urandom, settings |-> DefaultSettings]
           conf == _save_config(cfg, fault)
           saved == IF conf.status = "ok"
                    THEN _save_vault(password[h], cfg, <<>>, fault)
                    ELSE NotSaved
           status == IF conf.status = "ok" THEN saved.status ELSE conf.status
       IN  /\ CanInject(fault, VaultFaults \cup ConfigFaults)
           /\ config_file' = conf.config_file
           /\ vault_file' = saved.vault_file
           /\ tmp_files' = saved.tmp_files
           /\ Finish(h, status, password[h], cfg, <<>>, {})
           /\ last' = Call("init", h, [force |-> force], fault, status, NoResult)
           /\ history_ok' = (status = "ok")
           /\ UNCHANGED backups
    /\ faults' = Injected(fault)
    /\ UNCHANGED now
    /\ UNCHANGED core

\* vault.init(force)
init(h, force, fault) ==
    /\ open[h]
    /\ calls < MaxCalls
    /\ calls' = calls + 1
    /\ IF vault_file.kind # "absent" /\ ~force
       THEN /\ fault = "none"
            /\ last' = Call("init", h, [force |-> force], fault, "VaultError",
                            NoResult)
            /\ history_ok' = FALSE
            /\ UNCHANGED <<disk, handle>>
       ELSE LET cfg == [version |-> CONFIG_VERSION, salt |-> urandom, settings |-> DefaultSettings]
                conf == _save_config(cfg, fault)
                saved == IF conf.status = "ok"
                         THEN _save_vault(password[h], cfg, <<>>, fault)
                         ELSE NotSaved
                status == IF conf.status = "ok" THEN saved.status ELSE conf.status
            IN  /\ CanInject(fault, VaultFaults \cup ConfigFaults)
                /\ config_file' = conf.config_file
                /\ vault_file' = saved.vault_file
                /\ tmp_files' = saved.tmp_files
                /\ Finish(h, status, password[h], cfg, <<>>, {})
                /\ last' = Call("init", h, [force |-> force], fault, status, NoResult)
                /\ history_ok' = (status = "ok")
                /\ UNCHANGED backups
    /\ faults' = Injected(fault)
    /\ UNCHANGED now
    /\ UNCHANGED core

\* vault.add_credential(name, value, metadata); the clock advances by d between
\* the two datetime.now() calls.
add_credential(h, name, value, metadata, d, fault) ==
    /\ open[h]
    /\ calls < MaxCalls
    /\ calls' = calls + 1
    /\ now + d <= MaxClock
    /\ CanInject(fault, IF auto_save[h] THEN VaultFaults ELSE {})
    /\ LET credential == Credential(name, value, now, now + d, metadata, NoTime)
           creds == Put(credentials[h], name, credential)
           saved == IF auto_save[h]
                    THEN _save_vault(password[h], config[h], creds, fault)
                    ELSE NotSaved
       IN  /\ vault_file' = saved.vault_file
           /\ tmp_files' = saved.tmp_files
           /\ Finish(h, saved.status, password[h], config[h], creds,
                     returned[h].shared \ {name})
           /\ last' = Call("add_credential", h,
                           [name |-> name, value |-> value, metadata |-> metadata],
                           fault, saved.status, NoResult)
           /\ history_ok' = (history_ok /\ saved.status = "ok")
    /\ now' = now + d
    /\ faults' = Injected(fault)
    /\ UNCHANGED <<config_file, backups>>
    /\ UNCHANGED core

\* A get_credential that stamps updated_at as well.
get_credential_touching(h, name, fault) ==
    /\ open[h]
    /\ calls < MaxCalls
    /\ calls' = calls + 1
    /\ IF name \notin DOMAIN credentials[h]
       THEN /\ fault = "none"
            /\ last' = Call("get_credential", h, [name |-> name], fault,
                            "CredentialNotFoundError", NoResult)
            /\ history_ok' = FALSE
            /\ UNCHANGED <<disk, handle>>
       ELSE LET log_access == config[h].settings.log_access
                saves == log_access /\ auto_save[h]
                creds == IF log_access
                         THEN [credentials[h] EXCEPT ![name].last_accessed = now,
                                                   ![name].updated_at = now]
                         ELSE credentials[h]
                saved == IF saves
                         THEN _save_vault(password[h], config[h], creds, fault)
                         ELSE NotSaved
            IN  /\ CanInject(fault, IF saves THEN VaultFaults ELSE {})
                /\ vault_file' = saved.vault_file
                /\ tmp_files' = saved.tmp_files
                /\ Finish(h, saved.status, password[h], config[h], creds,
                          returned[h].shared)
                /\ last' = Call("get_credential", h, [name |-> name], fault,
                                saved.status,
                                IF saved.status = "ok" THEN creds[name].value
                                ELSE NoResult)
                /\ history_ok' = (history_ok /\ saved.status = "ok")
                /\ UNCHANGED <<config_file, backups>>
    /\ faults' = Injected(fault)
    /\ UNCHANGED now
    /\ UNCHANGED core

\* vault.get_credential(name); last.result is the value returned.
get_credential(h, name, fault) ==
    /\ open[h]
    /\ calls < MaxCalls
    /\ calls' = calls + 1
    /\ IF name \notin DOMAIN credentials[h]
       THEN /\ fault = "none"
            /\ last' = Call("get_credential", h, [name |-> name], fault,
                            "CredentialNotFoundError", NoResult)
            /\ history_ok' = FALSE
            /\ UNCHANGED <<disk, handle>>
       ELSE LET log_access == config[h].settings.log_access
                saves == log_access /\ auto_save[h]
                creds == IF log_access
                         THEN [credentials[h] EXCEPT ![name].last_accessed = now]
                         ELSE credentials[h]
                saved == IF saves
                         THEN _save_vault(password[h], config[h], creds, fault)
                         ELSE NotSaved
            IN  /\ CanInject(fault, IF saves THEN VaultFaults ELSE {})
                /\ vault_file' = saved.vault_file
                /\ tmp_files' = saved.tmp_files
                /\ Finish(h, saved.status, password[h], config[h], creds,
                          returned[h].shared)
                /\ last' = Call("get_credential", h, [name |-> name], fault,
                                saved.status,
                                IF saved.status = "ok" THEN creds[name].value
                                ELSE NoResult)
                /\ history_ok' = (history_ok /\ saved.status = "ok")
                /\ UNCHANGED <<config_file, backups>>
    /\ faults' = Injected(fault)
    /\ UNCHANGED now
    /\ UNCHANGED core

\* vault.remove_credential(name)
remove_credential(h, name, fault) ==
    /\ open[h]
    /\ calls < MaxCalls
    /\ calls' = calls + 1
    /\ IF name \notin DOMAIN credentials[h]
       THEN /\ fault = "none"
            /\ last' = Call("remove_credential", h, [name |-> name], fault,
                            "CredentialNotFoundError", NoResult)
            /\ history_ok' = FALSE
            /\ UNCHANGED <<disk, handle>>
       ELSE LET creds == Del(credentials[h], name)
                saved == IF auto_save[h]
                         THEN _save_vault(password[h], config[h], creds, fault)
                         ELSE NotSaved
            IN  /\ CanInject(fault, IF auto_save[h] THEN VaultFaults ELSE {})
                /\ vault_file' = saved.vault_file
                /\ tmp_files' = saved.tmp_files
                /\ Finish(h, saved.status, password[h], config[h], creds,
                          returned[h].shared \ {name})
                /\ last' = Call("remove_credential", h, [name |-> name], fault,
                                saved.status, NoResult)
                /\ history_ok' = (history_ok /\ saved.status = "ok")
                /\ UNCHANGED <<config_file, backups>>
    /\ faults' = Injected(fault)
    /\ UNCHANGED now
    /\ UNCHANGED core

\* vault.get_metadata(name); last.result is the copy of the metadata returned.
get_metadata(h, name) ==
    /\ open[h]
    /\ calls < MaxCalls
    /\ calls' = calls + 1
    /\ IF name \notin DOMAIN credentials[h]
       THEN /\ last' = Call("get_metadata", h, [name |-> name], "none",
                            "CredentialNotFoundError", NoResult)
            /\ history_ok' = FALSE
       ELSE /\ last' = Call("get_metadata", h, [name |-> name], "none", "ok",
                            credentials[h][name].metadata)
            /\ UNCHANGED history_ok
    /\ UNCHANGED <<disk, handle, now, faults>>
    /\ UNCHANGED core

\* vault.set_metadata(name, metadata)
set_metadata(h, name, metadata, fault) ==
    /\ open[h]
    /\ calls < MaxCalls
    /\ calls' = calls + 1
    /\ IF name \notin DOMAIN credentials[h]
       THEN /\ fault = "none"
            /\ last' = Call("set_metadata", h,
                            [name |-> name, metadata |-> metadata], fault,
                            "CredentialNotFoundError", NoResult)
            /\ history_ok' = FALSE
            /\ UNCHANGED <<disk, handle>>
       ELSE LET creds == [credentials[h] EXCEPT ![name].metadata = metadata,
                                                ![name].updated_at = now]
                saved == IF auto_save[h]
                         THEN _save_vault(password[h], config[h], creds, fault)
                         ELSE NotSaved
            IN  /\ CanInject(fault, IF auto_save[h] THEN VaultFaults ELSE {})
                /\ vault_file' = saved.vault_file
                /\ tmp_files' = saved.tmp_files
                /\ Finish(h, saved.status, password[h], config[h], creds,
                          returned[h].shared)
                /\ last' = Call("set_metadata", h,
                                [name |-> name, metadata |-> metadata], fault,
                                saved.status, NoResult)
                /\ history_ok' = (history_ok /\ saved.status = "ok")
                /\ UNCHANGED <<config_file, backups>>
    /\ faults' = Injected(fault)
    /\ UNCHANGED now
    /\ UNCHANGED core

\* A save that reports success and writes nothing.
save_nothing(h, fault) ==
    /\ open[h]
    /\ calls < MaxCalls
    /\ calls' = calls + 1
    /\ CanInject(fault, VaultFaults \cup ConfigFaults)
    /\ LET saved == _save_vault(password[h], config[h], credentials[h], fault)
           conf == IF saved.status = "ok"
                   THEN _save_config(config[h], fault)
                   ELSE [config_file |-> config_file, status |-> saved.status]
       IN  /\ UNCHANGED <<vault_file, tmp_files, config_file>>
           /\ Finish(h, conf.status, password[h], config[h], credentials[h],
                     returned[h].shared)
           /\ last' = Call("save", h, NoArgs, fault, conf.status, NoResult)
           /\ history_ok' = (history_ok /\ conf.status = "ok")
    /\ faults' = Injected(fault)
    /\ UNCHANGED <<backups, now>>
    /\ UNCHANGED core

\* vault.save()
save(h, fault) ==
    /\ open[h]
    /\ calls < MaxCalls
    /\ calls' = calls + 1
    /\ CanInject(fault, VaultFaults \cup ConfigFaults)
    /\ LET saved == _save_vault(password[h], config[h], credentials[h], fault)
           conf == IF saved.status = "ok"
                   THEN _save_config(config[h], fault)
                   ELSE [config_file |-> config_file, status |-> saved.status]
       IN  /\ vault_file' = saved.vault_file
           /\ tmp_files' = saved.tmp_files
           /\ config_file' = conf.config_file
           /\ Finish(h, conf.status, password[h], config[h], credentials[h],
                     returned[h].shared)
           /\ last' = Call("save", h, NoArgs, fault, conf.status, NoResult)
           /\ history_ok' = (history_ok /\ conf.status = "ok")
    /\ faults' = Injected(fault)
    /\ UNCHANGED <<backups, now>>
    /\ UNCHANGED core

\* vault.change_password(new_password)
change_password(h, new_password, fault) ==
    /\ open[h]
    /\ calls < MaxCalls
    /\ calls' = calls + 1
    /\ CanInject(fault, VaultFaults \cup ConfigFaults)
    /\ LET old_password == password[h]
           cfg == [config[h] EXCEPT !.salt = urandom]
           saved == _save_vault(new_password, cfg, credentials[h], fault)
           conf == IF saved.status = "ok"
                   THEN _save_config(cfg, fault)
                   ELSE [config_file |-> config_file, status |-> saved.status]
           \* except Exception: revert the password, raise EncryptionError
           status == IF conf.status \in {"ok", "crashed"} THEN conf.status
                     ELSE "EncryptionError"
       IN  /\ vault_file' = saved.vault_file
           /\ tmp_files' = saved.tmp_files
           /\ config_file' = conf.config_file
           /\ Finish(h, status,
                     IF status = "ok" THEN new_password ELSE old_password,
                     cfg, credentials[h], returned[h].shared)
           /\ last' = Call("change_password", h, [new_password |-> new_password],
                           fault, status, NoResult)
           /\ history_ok' = (history_ok /\ status = "ok")
    /\ faults' = Injected(fault)
    /\ UNCHANGED <<backups, now>>
    /\ UNCHANGED core

\* vault.update_credential(name, value, metadata): metadata is replaced when
\* supplied (not None).  The tests and the examples call this method; vault.py
\* does not define it, and it is modelled here as the interface describes it,
\* on Credential.update_value.
update_credential(h, name, value, supplied, metadata, fault) ==
    /\ open[h]
    /\ calls < MaxCalls
    /\ calls' = calls + 1
    /\ IF name \notin DOMAIN credentials[h]
       THEN /\ fault = "none"
            /\ last' = Call("update_credential", h,
                            [name |-> name, value |-> value, supplied |-> supplied,
                             metadata |-> metadata],
                            fault, "CredentialNotFoundError", NoResult)
            /\ history_ok' = FALSE
            /\ UNCHANGED <<disk, handle>>
       ELSE LET updated == update_value(credentials[h][name], value, now)
                credential == IF supplied
                              THEN [updated EXCEPT !.metadata = metadata]
                              ELSE updated
                creds == [credentials[h] EXCEPT ![name] = credential]
                saved == IF auto_save[h]
                         THEN _save_vault(password[h], config[h], creds, fault)
                         ELSE NotSaved
            IN  /\ CanInject(fault, IF auto_save[h] THEN VaultFaults ELSE {})
                /\ vault_file' = saved.vault_file
                /\ tmp_files' = saved.tmp_files
                /\ Finish(h, saved.status, password[h], config[h], creds,
                          returned[h].shared)
                /\ last' = Call("update_credential", h,
                                [name |-> name, value |-> value,
                                 supplied |-> supplied, metadata |-> metadata],
                                fault, saved.status, NoResult)
                /\ history_ok' = (history_ok /\ saved.status = "ok")
                /\ UNCHANGED <<config_file, backups>>
    /\ faults' = Injected(fault)
    /\ UNCHANGED now
    /\ UNCHANGED core

\* vault.get_all_credentials(): the caller gets a new dict whose values are the
\* vault's own Credential objects.
get_all_credentials(h) ==
    /\ open[h]
    /\ calls < MaxCalls
    /\ calls' = calls + 1
    /\ returned' = [returned EXCEPT ![h] = [keys |-> DOMAIN credentials[h],
                                            shared |-> DOMAIN credentials[h]]]
    /\ last' = Call("get_all_credentials", h, NoArgs, "none", "ok",
                    DOMAIN credentials[h])
    /\ UNCHANGED <<disk, open, password, config, credentials, auto_save, now,
                   faults, history_ok>>
    /\ UNCHANGED core

\* The environment-variable name export_env gives a credential name.
env_key(name, uppercase) ==
    replace(IF uppercase THEN upper(name) ELSE name, "-", "_")

\* vault.export_env(uppercase); last.result is the dict returned.  (No two
\* names of the model get the same key, so the order of the loop is immaterial.)
export_env(h, uppercase) ==
    /\ open[h]
    /\ calls < MaxCalls
    /\ calls' = calls + 1
    /\ LET env_vars ==
              [key \in {env_key(n, uppercase) : n \in DOMAIN credentials[h]} |->
                  credentials[h][CHOOSE n \in DOMAIN credentials[h] :
                                    env_key(n, uppercase) = key].value]
       IN  last' = Call("export_env", h, [uppercase |-> uppercase], "none", "ok",
                        env_vars)
    /\ UNCHANGED <<disk, handle, now, faults, history_ok>>
    /\ UNCHANGED core

\* The least timestamp: sorted(backup_dir.glob("vault_*.enc"))[0].
oldest(files) == CHOOSE t \in DOMAIN files : \A u \in DOMAIN files : t <= u

\* Vault._cleanup_backups on the backup files `files`, with configuration cfg.
RECURSIVE unlink_oldest(_, _)
unlink_oldest(files, max_backups) ==
    IF Cardinality(DOMAIN files) > max_backups
    THEN unlink_oldest(Del(files, oldest(files)), max_backups)
    ELSE files

_cleanup_backups(cfg, files) ==
    IF ~cfg.settings.auto_backup THEN files
    ELSE IF cfg.settings.backup_count <= 0 THEN files
    ELSE unlink_oldest(files, cfg.settings.backup_count)

\* A backup that encrypts the in-memory credentials anew instead of copying
\* vault.enc.
backup_of_memory(h) ==
    /\ open[h]
    /\ calls < MaxCalls
    /\ calls' = calls + 1
    /\ IF vault_file.kind = "absent"
       THEN /\ last' = Call("backup", h, NoArgs, "none", "FileNotFoundError",
                            NoResult)
            /\ history_ok' = FALSE
            /\ UNCHANGED backups
       ELSE LET timestamp == strftime(now)
                copied == Put(backups, timestamp,
                              encrypt(_derive_key(password[h], config[h].salt),
                                      [n \in DOMAIN credentials[h]
                                         |-> to_dict(credentials[h][n])]))
            IN  /\ backups' = _cleanup_backups(config[h], copied)
                /\ last' = Call("backup", h, NoArgs, "none", "ok", timestamp)
                /\ UNCHANGED history_ok
    /\ UNCHANGED <<config_file, vault_file, tmp_files, handle, now, faults>>
    /\ UNCHANGED core

\* vault.backup() into vault_dir/backups; last.result is the timestamp in the
\* name of the backup file.
backup(h) ==
    /\ open[h]
    /\ calls < MaxCalls
    /\ calls' = calls + 1
    /\ IF vault_file.kind = "absent"
       THEN /\ last' = Call("backup", h, NoArgs, "none", "FileNotFoundError",
                            NoResult)
            /\ history_ok' = FALSE
            /\ UNCHANGED backups
       ELSE LET timestamp == strftime(now)
                copied == Put(backups, timestamp, vault_file)
            IN  /\ backups' = _cleanup_backups(config[h], copied)
                /\ last' = Call("backup", h, NoArgs, "none", "ok", timestamp)
                /\ UNCHANGED history_ok
    /\ UNCHANGED <<config_file, vault_file, tmp_files, handle, now, faults>>
    /\ UNCHANGED core

\* ------------------------------------------------------------- the caller

\* What the caller of h does to the dict get_all_credentials() returned.
CallerOps == {"caller_set_value", "caller_set_metadata", "caller_del", "caller_add"}

\* returned[name].update_value(value): the object is the vault's as long as
\* the vault has not replaced or removed it.
caller_set_value(h, name, value) ==
    /\ open[h]
    /\ name \in returned[h].keys
    /\ calls < MaxCalls
    /\ calls' = calls + 1
    /\ credentials' = IF name \in returned[h].shared
                      THEN [credentials EXCEPT ![h][name].value = value,
                                               ![h][name].updated_at = now]
                      ELSE credentials
    /\ last' = Call("caller_set_value", h, [name |-> name, value |-> value],
                    "none", "ok", NoResult)
    /\ UNCHANGED <<disk, open, password, config, auto_save, returned, now, faults,
                   history_ok>>
    /\ UNCHANGED core

\* returned[name].metadata = metadata
caller_set_metadata(h, name, metadata) ==
    /\ open[h]
    /\ name \in returned[h].keys
    /\ calls < MaxCalls
    /\ calls' = calls + 1
    /\ credentials' = IF name \in returned[h].shared
                      THEN [credentials EXCEPT ![h][name].metadata = metadata]
                      ELSE credentials
    /\ last' = Call("caller_set_metadata", h,
                    [name |-> name, metadata |-> metadata], "none", "ok", NoResult)
    /\ UNCHANGED <<disk, open, password, config, auto_save, returned, now, faults,
                   history_ok>>
    /\ UNCHANGED core

\* del returned[name]
caller_del(h, name) ==
    /\ open[h]
    /\ name \in returned[h].keys
    /\ calls < MaxCalls
    /\ calls' = calls + 1
    /\ returned' = [returned EXCEPT ![h] = [keys |-> @.keys \ {name},
                                            shared |-> @.shared \ {name}]]
    /\ last' = Call("caller_del", h, [name |-> name], "none", "ok", NoResult)
    /\ UNCHANGED <<disk, open, password, config, credentials, auto_save, now,
                   faults, history_ok>>
    /\ UNCHANGED core

\* returned[name] = Credential(name, ...): an object of the caller's own
caller_add(h, name) ==
    /\ open[h]
    /\ calls < MaxCalls
    /\ calls' = calls + 1
    /\ returned' = [returned EXCEPT ![h] = [keys |-> @.keys \cup {name},
                                            shared |-> @.shared \ {name}]]
    /\ last' = Call("caller_add", h, [name |-> name], "none", "ok", NoResult)
    /\ UNCHANGED <<disk, open, password, config, credentials, auto_save, now,
                   faults, history_ok>>
    /\ UNCHANGED core

\* ------------------------------------------------------------- LlamaVault (core.py)

\* The names and values a caller passes: the empty string, a credential name,
\* and "access", whose file access.json the constructor writes.
CoreNames == {"", "api-key", "access"}
CoreValues == {"", "x", "y"}

\* json.dump({}, f): the content of access.json.
EmptyJson == [kind |-> "empty"]

\* What can go wrong in a LlamaVault call: the open or unlink of the credential
\* file raises, or the open of audit.log does.
CoreFaults == {"none", "store_fails", "audit_fails"}

\* LlamaVault._encrypt_value and _decrypt_value, under the key in encryption.key.
_encrypt_value(value) == <<"fernet", value>>
_decrypt_value(encrypted_value) == encrypted_value[2]

\* LlamaVault._credential_exists
_credential_exists(name) == name \in DOMAIN credential_files

\* LlamaVault._load_credential: the content of the file, or None.
None == [kind |-> "None"]
_load_credential(name) ==
    IF name \in DOMAIN credential_files THEN credential_files[name] ELSE None

\* `not credential`: None and the empty dict are falsy.
falsy(credential) == credential \in {None, EmptyJson}

\* An audit log opened with "w": the entry replaces the lines written so far.
_log_audit_truncating(action, credential_name) ==
    <<[timestamp |-> isoformat(now), action |-> action,
       credential |-> credential_name]>>

\* LlamaVault._log_audit: the log with one more line.
_log_audit(action, credential_name) ==
    Append(audit_log, [timestamp |-> isoformat(now), action |-> action,
                       credential |-> credential_name])

\* What a LlamaVault call leaves behind: it changes the credential files to
\* `files` and then logs `action`, unless the file operation or the logging
\* fails.  last.result is what the call returns.
CoreCall(op, args, fault, files, action, result) ==
    /\ calls < MaxCalls
    /\ calls' = calls + 1
    /\ CanInject(fault, CoreFaults)
    /\ faults' = Injected(fault)
    /\ credential_files' = IF fault = "store_fails" THEN credential_files ELSE files
    /\ audit_log' = IF fault = "none" THEN _log_audit(action, args.name)
                    ELSE audit_log
    /\ last' = Call(op, "A", args, fault,
                    IF fault = "none" THEN "ok" ELSE "OSError",
                    IF fault = "none" THEN result ELSE NoResult)
    /\ UNCHANGED <<disk, handle, now, history_ok>>

\* A LlamaVault call that raises ValueError before it changes anything.
CoreValueError(op, args) ==
    /\ calls < MaxCalls
    /\ calls' = calls + 1
    /\ last' = Call(op, "A", args, "none", "ValueError", NoResult)
    /\ UNCHANGED <<disk, handle, now, faults, history_ok, core>>

\* LlamaVault.add_credential(name, value, credential_type)
LlamaVault_add_credential(name, value, fault) ==
    LET args == [name |-> name, value |-> value]
        credential == [kind |-> "credential", name |-> name,
                       value |-> _encrypt_value(value),
                       created_at |-> isoformat(now),
                       updated_at |-> isoformat(now), version |-> 1]
    IN  IF name = "" \/ value = "" \/ _credential_exists(name)
        THEN fault = "none" /\ CoreValueError("LlamaVault.add_credential", args)
        ELSE CoreCall("LlamaVault.add_credential", args, fault,
                      Put(credential_files, name, credential), "ADD", NoResult)

\* LlamaVault.get_credential(name)
LlamaVault_get_credential(name, fault) ==
    LET args == [name |-> name]
        credential == _load_credential(name)
    IN  IF falsy(credential)
        THEN fault = "none" /\ CoreValueError("LlamaVault.get_credential", args)
        ELSE /\ fault # "store_fails"
             /\ CoreCall("LlamaVault.get_credential", args, fault,
                         credential_files, "ACCESS",
                         [credential EXCEPT
                            !.value = _decrypt_value(credential.value)])

\* LlamaVault.remove_credential(name)
LlamaVault_remove_credential(name, fault) ==
    LET args == [name |-> name]
    IN  IF ~_credential_exists(name)
        THEN fault = "none" /\ CoreValueError("LlamaVault.remove_credential", args)
        ELSE CoreCall("LlamaVault.remove_credential", args, fault,
                      Del(credential_files, name), "REMOVE", NoResult)

\* LlamaVault.rotate_credential(name, new_value)
LlamaVault_rotate_credential(name, new_value, fault) ==
    LET args == [name |-> name, value |-> new_value]
        credential == _load_credential(name)
    IN  IF falsy(credential)
        THEN fault = "none" /\ CoreValueError("LlamaVault.rotate_credential", args)
        ELSE CoreCall("LlamaVault.rotate_credential", args, fault,
                      Put(credential_files, name,
                          [credential EXCEPT
                             !.value = _encrypt_value(new_value),
                             !.updated_at = isoformat(now),
                             !.version = credential.version + 1]),
                      "ROTATE", NoResult)

\* ------------------------------------------------------------- specification

\* One process at a time works on the directory, through handle "A", with
\* auto-save on; any write may fail and the process may stop in any save.
Next ==
    \/ \E pw_arg \in Passwords \cup {NoPassword}, env \in Passwords \cup {NoPassword} :
          Construct("A", pw_arg, env, TRUE)
    \/ Drop("A")
    \/ \E force \in BOOLEAN, fault \in Faults : init("A", force, fault)
    \/ \E name \in Names, value \in Values, metadata \in Metas, fault \in Faults :
          add_credential("A", name, value, metadata, 0, fault)
    \/ \E name \in Names, fault \in Faults : get_credential("A", name, fault)
    \/ \E name \in Names, fault \in Faults : remove_credential("A", name, fault)
    \/ \E name \in Names, metadata \in Metas, fault \in Faults :
          set_metadata("A", name, metadata, fault)
    \/ \E fault \in Faults : save("A", fault)
    \/ \E new_password \in Passwords, fault \in Faults :
          change_password("A", new_password, fault)

Spec == Init /\ [][Next]_vars

\* The directory after Vault(vault_dir, "p1").init(), with the settings in
\* config.json set to `settings` before the handle "A" was opened on it with
\* auto_save=autosave.
Opened(settings, autosave) ==
    /\ config_file = [kind |-> "json", version |-> CONFIG_VERSION, salt |-> 0,
                      settings |-> settings]
    /\ vault_file = encrypt(_derive_key("p1", 0), <<>>)
    /\ tmp_files = {}
    /\ backups = <<>>
    /\ open = [h \in Handles |-> h = "A"]
    /\ password = [h \in Handles |-> IF h = "A" THEN "p1" ELSE NoPassword]
    /\ config = [h \in Handles |-> IF h = "A"
                                   THEN [version |-> CONFIG_VERSION, salt |-> 0,
                                         settings |-> settings]
                                   ELSE ClosedConfig]
    /\ credentials = [h \in Handles |-> <<>>]
    /\ auto_save = [h \in Handles |-> autosave]
    /\ returned = [h \in Handles |-> NoDict]
    /\ credential_files = <<>>
    /\ audit_log = <<>>
    /\ now = 0
    /\ faults = 0
    /\ calls = 0
    /\ history_ok = TRUE
    /\ last = Call("init", "A", [force |-> FALSE], "none", "ok", NoResult)

\* The same directory with the handle "A" opened with auto-save on.
Initialised(settings) == Opened(settings, TRUE)

\* Backups: the handle is opened on an empty directory or on an initialised
\* one, whatever its settings; time passes between the calls.
InitBackup ==
    \/ \E settings \in SettingsChoices : Initialised(settings)
    \/ /\ config_file = Absent
       /\ vault_file = Absent
       /\ tmp_files = {}
       /\ backups = <<>>
       /\ open = [h \in Handles |-> h = "A"]
       /\ password = [h \in Handles |-> IF h = "A" THEN "p1" ELSE NoPassword]
       /\ config = [h \in Handles |-> IF h = "A"
                                      THEN [version |-> CONFIG_VERSION, salt |-> 0,
                                            settings |-> DefaultSettings]
                                      ELSE ClosedConfig]
       /\ credentials = [h \in Handles |-> <<>>]
       /\ auto_save = [h \in Handles |-> TRUE]
       /\ returned = [h \in Handles |-> NoDict]
       /\ credential_files = <<>>
       /\ audit_log = <<>>
       /\ now = 0
       /\ faults = 0
       /\ calls = 0
       /\ history_ok = FALSE
       /\ last = Call("Vault", "A", [password |-> "p1", auto_save |-> TRUE],
                      "none", "none", NoResult)

NextBackup ==
    \/ Tick
    \/ backup("A")
    \/ \E force \in BOOLEAN : init("A", force, "none")
    \/ \E name \in Names, value \in Values :
          add_credential("A", name, value, {}, 0, "none")

SpecBackup == InitBackup /\ [][NextBackup]_vars

\* Export: credentials come and go, and are exported.
InitExport == Initialised(DefaultSettings)

NextExport ==
    \/ \E name \in Names, value \in Values, metadata \in Metas :
          add_credential("A", name, value, metadata, 0, "none")
    \/ \E name \in Names : remove_credential("A", name, "none")
    \/ \E uppercase \in BOOLEAN : export_env("A", uppercase)

SpecExport == InitExport /\ [][NextExport]_vars

\* Aliasing: the caller works on the dict get_all_credentials() returned while
\* the vault is used.
InitAlias == Initialised(DefaultSettings)

NextAlias ==
    \/ \E name \in Names, value \in Values :
          add_credential("A", name, value, {}, 0, "none")
    \/ \E name \in Names : remove_credential("A", name, "none")
    \/ get_all_credentials("A")
    \/ \E name \in Names, value \in Values : caller_set_value("A", name, value)
    \/ \E name \in Names, metadata \in Metas :
          caller_set_metadata("A", name, metadata)
    \/ \E name \in Names : caller_del("A", name)
    \/ \E name \in Names : caller_add("A", name)
    \/ \E name \in Names : get_credential("A", name, "none")
    \/ save("A", "none")

SpecAlias == InitAlias /\ [][NextAlias]_vars

\* Lookups: credentials are added, read, changed and removed by name, present
\* or not, whatever the settings; a save may fail.
InitLookup == \E settings \in SettingsChoices : Initialised(settings)

NextLookup ==
    \/ \E name \in Names, value \in Values, metadata \in Metas :
          add_credential("A", name, value, metadata, 0, "none")
    \/ \E name \in Names, fault \in Faults : get_credential("A", name, fault)
    \/ \E name \in Names, fault \in Faults : remove_credential("A", name, fault)
    \/ \E name \in Names : get_metadata("A", name)
    \/ \E name \in Names, metadata \in Metas, fault \in Faults :
          set_metadata("A", name, metadata, fault)

SpecLookup == InitLookup /\ [][NextLookup]_vars

\* Reads: credentials are added and read while time passes, with access
\* logging on or off and auto-save on or off; the save of a read may fail.
InitRead ==
    \E settings \in SettingsChoices, autosave \in BOOLEAN :
        Opened(settings, autosave)

NextRead ==
    \/ Tick
    \/ \E name \in Names, metadata \in Metas :
          add_credential("A", name, "x", metadata, 0, "none")
    \/ \E name \in Names, fault \in Faults : get_credential("A", name, fault)

SpecRead == InitRead /\ [][NextRead]_vars

\* Manual saving: the handle is opened with auto_save=False; credentials are
\* added, read, removed and annotated, and save() is called, and may fail.
InitManual == \E settings \in SettingsChoices : Opened(settings, FALSE)

NextManual ==
    \/ \E name \in Names, metadata \in Metas :
          add_credential("A", name, "x", metadata, 0, "none")
    \/ \E name \in Names : get_credential("A", name, "none")
    \/ \E name \in Names : remove_credential("A", name, "none")
    \/ \E name \in Names, metadata \in Metas :
          set_metadata("A", name, metadata, "none")
    \/ \E fault \in Faults : save("A", fault)

SpecManual == InitManual /\ [][NextManual]_vars

\* Copies: on a handle with auto-save on or off, credentials are added and
\* removed and the store is backed up while time passes.
InitCopy ==
    \E settings \in SettingsChoices, autosave \in BOOLEAN :
        Opened(settings, autosave)

NextCopy ==
    \/ Tick
    \/ backup("A")
    \/ \E name \in Names, value \in Values :
          add_credential("A", name, value, {}, 0, "none")
    \/ \E name \in Names : remove_credential("A", name, "none")

SpecCopy == InitCopy /\ [][NextCopy]_vars

\* Updates: credentials are added and updated while time passes; the save of
\* an update may fail.
InitUpdate == Initialised(DefaultSettings)

NextUpdate ==
    \/ Tick
    \/ \E name \in Names : add_credential("A", name, "x", {}, 0, "none")
    \/ \E name \in Names, value \in Values, supplied \in BOOLEAN,
          metadata \in Metas, fault \in {"none", "move_fails"} :
          update_credential("A", name, value, supplied, metadata, fault)

SpecUpdate == InitUpdate /\ [][NextUpdate]_vars

\* Two handles: "A" and "B" are open on the same initialised vault, each with
\* auto-save on, and take turns.
InitConc ==
    /\ config_file = [kind |-> "json", version |-> CONFIG_VERSION, salt |-> 0,
                      settings |-> DefaultSettings]
    /\ vault_file = encrypt(_derive_key("p1", 0), <<>>)
    /\ tmp_files = {}
    /\ backups = <<>>
    /\ open = [h \in Handles |-> TRUE]
    /\ password = [h \in Handles |-> "p1"]
    /\ config = [h \in Handles |-> [version |-> CONFIG_VERSION, salt |-> 0,
                                    settings |-> DefaultSettings]]
    /\ credentials = [h \in Handles |-> <<>>]
    /\ auto_save = [h \in Handles |-> TRUE]
    /\ returned = [h \in Handles |-> NoDict]
    /\ credential_files = <<>>
    /\ audit_log = <<>>
    /\ now = 0
    /\ faults = 0
    /\ calls = 0
    /\ history_ok = TRUE
    /\ last = Call("Vault", "B", [password |-> "p1", auto_save |-> TRUE],
                   "none", "none", {})

NextConc ==
    \E h \in Handles :
        \/ \E name \in Names, value \in Values :
              add_credential(h, name, value, {}, 0, "none")
        \/ \E name \in Names : remove_credential(h, name, "none")
        \/ \E name \in Names : get_credential(h, name, "none")
        \/ \E name \in Names, metadata \in Metas :
              set_metadata(h, name, metadata, "none")

SpecConc == InitConc /\ [][NextConc]_vars

\* Two handles and a new password: "A" and "B" are open on the same
\* initialised vault; either changes the password, and both go on adding and
\* removing credentials with auto-save.
NextRekey ==
    \E h \in Handles :
        \/ \E new_password \in Passwords : change_password(h, new_password, "none")
        \/ \E name \in Names, value \in Values :
              add_credential(h, name, value, {}, 0, "none")
        \/ \E name \in Names : remove_credential(h, name, "none")

SpecRekey == InitConc /\ [][NextRekey]_vars

\* A record of a store that this code did not write: any of its three
\* timestamps may be an ISO date (clock 0), null or corrupt.
ForeignRecords ==
    { [name |-> api_key, value |-> "x", created_at |-> c, updated_at |-> u,
       last_accessed |-> a, metadata |-> {<<"env", "prod">>}] :
        c \in {isoformat(0), JsonNull, Corrupt},
        u \in {isoformat(0), JsonNull, Corrupt},
        a \in {isoformat(0), JsonNull, Corrupt} }

\* Loading: a vault directory whose store holds one such record, under the
\* password "p1"; it is opened at some later time and then used.
InitLoad ==
    /\ config_file = [kind |-> "json", version |-> CONFIG_VERSION, salt |-> 0,
                      settings |-> DefaultSettings]
    /\ \E record \in ForeignRecords :
          vault_file = encrypt(_derive_key("p1", 0), [n \in {api_key} |-> record])
    /\ tmp_files = {}
    /\ backups = <<>>
    /\ open = [h \in Handles |-> FALSE]
    /\ password = [h \in Handles |-> NoPassword]
    /\ config = [h \in Handles |-> ClosedConfig]
    /\ credentials = [h \in Handles |-> <<>>]
    /\ auto_save = [h \in Handles |-> TRUE]
    /\ returned = [h \in Handles |-> NoDict]
    /\ credential_files = <<>>
    /\ audit_log = <<>>
    /\ now = 0
    /\ faults = 0
    /\ calls = 0
    /\ history_ok = FALSE
    /\ last = Call("start", "A", NoArgs, "none", "ok", NoResult)

NextLoad ==
    \/ Tick
    \/ \E pw_arg \in Passwords : Construct("A", pw_arg, NoPassword, TRUE)
    \/ Drop("A")
    \/ \E name \in Names, d \in {0, 1} :
          add_credential("A", name, "y", {}, d, "none")
    \/ \E name \in Names : get_credential("A", name, "none")
    \/ \E name \in Names : set_metadata("A", name, {}, "none")
    \/ get_all_credentials("A")
    \/ \E name \in Names : caller_set_value("A", name, "y")

SpecLoad == InitLoad /\ [][NextLoad]_vars

\* Files: every call that persists, backup included, on one handle; any write
\* may fail and the process may stop in any save.
NextFiles ==
    \/ Next
    \/ backup("A")

SpecFiles == Init /\ [][NextFiles]_vars

\* The audit log: a LlamaVault has been constructed on an empty directory next
\* to which no Vault is open; credentials are added, read, rotated and removed
\* while time passes, and the file operations and the logging may fail.
InitAudit ==
    /\ config_file = Absent
    /\ vault_file = Absent
    /\ tmp_files = {}
    /\ backups = <<>>
    /\ open = [h \in Handles |-> FALSE]
    /\ password = [h \in Handles |-> NoPassword]
    /\ config = [h \in Handles |-> ClosedConfig]
    /\ credentials = [h \in Handles |-> <<>>]
    /\ auto_save = [h \in Handles |-> TRUE]
    /\ returned = [h \in Handles |-> NoDict]
    /\ credential_files = [n \in {"access"} |-> EmptyJson]
    /\ audit_log = <<>>
    /\ now = 0
    /\ faults = 0
    /\ calls = 0
    /\ history_ok = FALSE
    /\ last = Call("LlamaVault", "A", NoArgs, "none", "ok", NoResult)

NextAudit ==
    \/ Tick
    \/ \E name \in CoreNames, value \in CoreValues, fault \in CoreFaults :
          LlamaVault_add_credential(name, value, fault)
    \/ \E name \in CoreNames, fault \in CoreFaults :
          LlamaVault_get_credential(name, fault)
    \/ \E name \in CoreNames, fault \in CoreFaults :
          LlamaVault_remove_credential(name, fault)
    \/ \E name \in CoreNames, new_value \in CoreValues, fault \in CoreFaults :
          LlamaVault_rotate_credential(name, new_value, fault)

SpecAudit == InitAudit /\ [][NextAudit]_vars

\* ------------------------------------------------------------- claims

\* What a new handle opened on the directory with password pw holds.
Reopened(pw) == Vault(pw, NoPassword)

\* C1: for a vault created by init() with auto-save on, after every successful
\* operation since, a successful add_credential(name, v, m) leaves v and m as
\* the value and metadata of name, on the same handle and on a new handle
\* opened on the directory with the same password.
C1_RoundTrip ==
    (/\ last.op = "add_credential"
     /\ last.outcome = "ok"
     /\ history_ok
     /\ auto_save[last.h])
    => LET h == last.h
           a == last.args
           v == Reopened(password[h])
       IN  /\ a.name \in DOMAIN credentials[h]
           /\ credentials[h][a.name].value = a.value
           /\ credentials[h][a.name].metadata = a.metadata
           /\ v.error = "none"
           /\ a.name \in DOMAIN v.credentials
           /\ v.credentials[a.name].value = a.value
           /\ v.credentials[a.name].metadata = a.metadata

\* C1's case: a credential with metadata added after a change of password.
C1_Witness ==
    /\ last.op = "add_credential"
    /\ last.outcome = "ok"
    /\ history_ok
    /\ last.args.metadata # {}
    /\ password["A"] = "p2"
    /\ vault_file.kind = "blob"
    /\ vault_file.key[2] > 0

\* C2: constructing a Vault on a directory whose store exists, with a password
\* other than the one the store was last encrypted under, raises
\* AuthenticationError and yields no handle: for the construction just made,
\* and for every password one could construct it with now.
C2_WrongPassword ==
    /\ (/\ last.op = "Vault"
        /\ vault_file.kind = "blob"
        /\ last.args.password # vault_file.key[1])
       => /\ last.outcome = "AuthenticationError"
          /\ ~open[last.h]
          /\ credentials[last.h] = <<>>
    /\ \A pw \in Passwords \cup {NoPassword} :
          (vault_file.kind = "blob" /\ pw # vault_file.key[1])
          => Reopened(pw).error = "AuthenticationError"

\* C2's case: a store holding a credential, opened with the other password.
C2_Witness ==
    /\ last.op = "Vault"
    /\ last.outcome = "AuthenticationError"
    /\ vault_file.kind = "blob"
    /\ DOMAIN vault_file.data # {}
    /\ last.args.password \in Passwords
    /\ last.args.password # vault_file.key[1]

\* C3: add_credential(name, ...) with name already in the vault fails with a
\* DuplicateName error and leaves the record and the store as they were.
C3_DuplicateName ==
    [][(/\ last'.op = "add_credential"
        /\ open[last'.h]
        /\ last'.args.name \in DOMAIN credentials[last'.h]
        /\ last'.fault = "none")
       => /\ last'.outcome = "DuplicateName"
          /\ credentials'[last'.h][last'.args.name]
                = credentials[last'.h][last'.args.name]
          /\ vault_file' = vault_file]_vars

\* C4: vault.enc never holds a partially written blob, and a call that stops
\* (or fails) before _save_vault's move leaves vault.enc as it was.
C4_AtomicSave ==
    [][/\ vault_file'.kind # "truncated"
       /\ last'.fault \in VaultFaults => vault_file' = vault_file]_vars

\* C4's case: the process stopped between the write of the temp file and the
\* move, with a store already in place.
C4_Witness ==
    /\ last.fault = "crash_before_move"
    /\ last.outcome = "crashed"
    /\ "complete" \in tmp_files
    /\ vault_file.kind = "blob"

\* C5: when change_password fails or stops before it has written both files
\* (and the old password opened the vault before the call), a new handle opened
\* with the old password succeeds and holds every credential that was there
\* before the call, with its value.
C5_OldPasswordStillOpens ==
    [][\A old \in Passwords :
        (/\ last'.op = "change_password"
         /\ last'.outcome # "ok"
         /\ open[last'.h]
         /\ password[last'.h] = old
         /\ Reopened(old).error = "none")
        => /\ (Reopened(old).error = "none")'
           /\ \A n \in Names, val \in Values :
                 (/\ n \in DOMAIN credentials[last'.h]
                  /\ credentials[last'.h][n].value = val)
                 => (/\ n \in DOMAIN Reopened(old).credentials
                     /\ Reopened(old).credentials[n].value = val)']_vars

\* C6: when change_password fails, the handle's password and the salt of its
\* configuration are those from before the call.
C6_FailureKeepsPasswordAndSalt ==
    [][(/\ last'.op = "change_password"
        /\ last'.outcome = "EncryptionError")
       => /\ password'[last'.h] = password[last'.h]
          /\ config'[last'.h].salt = config[last'.h].salt]_vars

\* C7: after change_password(new) succeeds with new other than the old
\* password, opening with the old password raises AuthenticationError and
\* opening with the new one succeeds and gives every credential the value it
\* had before the change.
C7_ChangePassword ==
    [][\A old \in Passwords \cup {NoPassword} :
        (/\ last'.op = "change_password"
         /\ last'.outcome = "ok"
         /\ open[last'.h]
         /\ password[last'.h] = old
         /\ last'.args.new_password # old)
        => /\ (Reopened(old).error = "AuthenticationError")'
           /\ (Reopened(last.args.new_password).error = "none")'
           /\ \A n \in Names, val \in Values :
                 (n \in DOMAIN credentials[last'.h]
                  /\ credentials[last'.h][n].value = val)
                 => (/\ n \in DOMAIN Reopened(last.args.new_password).credentials
                     /\ Reopened(last.args.new_password).credentials[n].value = val)'
           /\ (DOMAIN Reopened(last.args.new_password).credentials)'
                 = DOMAIN credentials[last'.h]]_vars

\* C7's case: the password of a vault holding a credential was changed.
C7_Witness ==
    /\ last.op = "change_password"
    /\ last.outcome = "ok"
    /\ open["A"]
    /\ password["A"] = "p2"
    /\ DOMAIN credentials["A"] # {}
    /\ Reopened("p1").error = "AuthenticationError"

\* C8: with auto_backup on and backup_count = N > 0, each successful backup()
\* into a directory holding at most N backups leaves one file more, or N files
\* when N were there (so that k calls leave min(k, N)), and the files that
\* remain are the most recent ones, the new one among them.
C8_BackupsKept ==
    [][LET h == last'.h
           N == config[h].settings.backup_count
           before == DOMAIN backups
           after == DOMAIN backups'
       IN  (/\ last'.op = "backup"
            /\ last'.outcome = "ok"
            /\ config[h].settings.auto_backup
            /\ N > 0
            /\ Cardinality(before) <= N)
           => /\ Cardinality(after)
                    = IF Cardinality(before) + 1 <= N THEN Cardinality(before) + 1
                      ELSE N
              /\ last'.result \in after
              /\ \A t \in (before \cup {last'.result}) \ after :
                    \A u \in after : t < u]_vars

\* C9: export_env(uppercase) gives every credential the name made from its own
\* by replacing each "-" and each space with "_", upper-cased when uppercase is
\* true, and maps that name to the credential's value.
C9_ExportEnv ==
    last.op = "export_env"
    => LET creds == credentials[last.h]
           env_name(n) ==
               replace(replace(IF last.args.uppercase THEN upper(n) ELSE n,
                               "-", "_"),
                       " ", "_")
       IN  /\ DOMAIN last.result = {env_name(n) : n \in DOMAIN creds}
           /\ \A n \in DOMAIN creds : last.result[env_name(n)] = creds[n].value

\* C10: nothing the caller does to the dict get_all_credentials() returned, or
\* to a Credential in it, changes the credentials the vault holds (what
\* get_credential and get_metadata return and what the next save writes) or
\* the store.
C10_IndependentCopy ==
    [][last'.op \in CallerOps
       => /\ credentials' = credentials
          /\ vault_file' = vault_file]_vars

\* The methods that look a credential up by name.
LookupOps == {"get_credential", "remove_credential", "get_metadata", "set_metadata"}

\* C11: get_credential, remove_credential, get_metadata and set_metadata with a
\* name that is not in the vault raise CredentialNotFoundError and leave the
\* credentials of the handle and the store as they were; a successful
\* remove_credential(name) leaves name out of the vault (so that get_credential
\* then raises).
C11_NotFound ==
    [][LET h == last'.h
           name == last'.args.name
       IN  /\ (/\ last'.op \in LookupOps
               /\ open[h]
               /\ name \notin DOMAIN credentials[h])
              => /\ last'.outcome = "CredentialNotFoundError"
                 /\ credentials' = credentials
                 /\ vault_file' = vault_file
           /\ (/\ last'.op = "remove_credential"
               /\ last'.outcome = "ok")
              => /\ name \notin DOMAIN credentials'[h]
                 /\ name \notin DOMAIN vault_file'.data]_vars

\* C11's case: get_credential of a name that is not in a vault holding another
\* credential.
C11_Witness ==
    /\ last.op = "get_credential"
    /\ last.outcome = "CredentialNotFoundError"
    /\ DOMAIN credentials["A"] # {}
    /\ DOMAIN vault_file.data = DOMAIN credentials["A"]

C13_InitExisting ==
    [][(/\ last'.op = "init"
        /\ ~last'.args.force
        /\ vault_file.kind # "absent")
       => /\ last'.outcome = "VaultError"
          /\ config_file' = config_file
          /\ vault_file' = vault_file
          /\ credentials' = credentials
          /\ config' = config
          /\ password' = password
          /\ open' = open]_vars

\* C13's case: init() on the handle of a vault that holds a credential.
C13_Witness ==
    /\ last.op = "init"
    /\ ~last.args.force
    /\ last.outcome = "VaultError"
    /\ DOMAIN credentials["A"] # {}
    /\ vault_file.kind = "blob"

\* C14: after init succeeds, on an empty directory or with force on an existing
\* vault, the handle holds no credentials, config.json holds a version and a
\* salt that no file and no handle held before, vault.enc exists, a new handle
\* opened with the same password holds no credentials, and no password opens a
\* handle that holds any.
C14_InitFresh ==
    [][\A h \in Handles :
        (/\ last'.op = "init"
         /\ last'.h = h
         /\ last'.outcome = "ok")
        => /\ credentials'[h] = <<>>
           /\ config_file'.kind = "json"
           /\ config_file'.version = CONFIG_VERSION
           /\ config_file'.salt \notin UsedSalts
           /\ vault_file'.kind = "blob"
           /\ (Reopened(password[h]).error = "none")'
           /\ (Reopened(password[h]).credentials = <<>>)'
           /\ \A pw \in Passwords : (Reopened(pw).credentials = <<>>)']_vars

\* C14's case: init(force=True) has succeeded as the third call of a run
\* without faults, on the handle that made the vault with the call before (its
\* own salt was not 0, the salt the constructor drew, so 0 was free again).
C14_Witness ==
    /\ last.op = "init"
    /\ last.args.force
    /\ last.outcome = "ok"
    /\ calls = 3
    /\ faults = 0
    /\ config_file.salt = 0
    /\ vault_file = encrypt(_derive_key(password["A"], 0), <<>>)

\* C15: every credential of an open vault has created_at <= updated_at, in
\* every reachable state: after add_credential, set_metadata, update_value,
\* get_credential, and after a load, also of records whose created_at or
\* updated_at is missing or corrupt.
C15_CreatedBeforeUpdated ==
    \A h \in Handles :
        open[h] => \A n \in DOMAIN credentials[h] :
                      credentials[h][n].created_at <= credentials[h][n].updated_at

\* C16: constructing a Vault on a directory whose config.json exists but cannot
\* be parsed raises ConfigurationError: the constructor neither returns a
\* handle with a default configuration nor raises another error.
C16_ConfigurationError ==
    [][(/\ last'.op = "Vault"
        /\ config_file.kind = "truncated")
       => /\ last'.outcome = "ConfigurationError"
          /\ ~open'[last'.h]]_vars

\* The calls that must neither change the persisted salt nor use another one.
SaltKeepingOps ==
    {"Vault", "add_credential", "get_credential", "remove_credential",
     "set_metadata", "save", "backup", "export_env"}

\* C17: on a vault whose config.json holds a salt, the constructor,
\* add_credential, get_credential, remove_credential, set_metadata, save, backup
\* and export_env leave that salt in config.json, and a store they write is
\* encrypted under that salt.
C17_SaltStable ==
    [][(/\ last'.op \in SaltKeepingOps
        /\ last'.outcome \in {"ok", "none"}
        /\ config_file.kind = "json")
       => /\ config_file'.kind = "json"
          /\ config_file'.salt = config_file.salt
          /\ vault_file' # vault_file => vault_file'.key[2] = config_file.salt]_vars

\* C18: when init(force=True) on an existing vault, or save(), fails or stops
\* after it has written one of config.json and vault.enc and before it has
\* written the other, a new handle opened with the password that opened the
\* vault before the call still opens it and holds the credentials it held.
C18_NoPartialCommit ==
    [][\A old \in Passwords :
        (/\ \/ /\ last'.op = "init"
               /\ last'.args.force
               /\ last'.fault \in VaultFaults
            \/ /\ last'.op = "save"
               /\ last'.fault \in ConfigFaults
         /\ last'.outcome # "ok"
         /\ vault_file.kind = "blob"
         /\ Reopened(old).error = "none")
        => /\ (Reopened(old).error = "none")'
           /\ \A n \in Names, val \in Values :
                 (/\ n \in DOMAIN Reopened(old).credentials
                  /\ Reopened(old).credentials[n].value = val)
                 => (/\ n \in DOMAIN Reopened(old).credentials
                     /\ Reopened(old).credentials[n].value = val)']_vars

\* The calls that save the vault when auto-save is on.
AutoSavedOps == {"add_credential", "remove_credential", "get_credential",
                 "set_metadata"}

\* C19: with two handles open on one directory, the last writer wins: after a
\* successful auto-saved call of a handle, the store is a whole blob that opens
\* with the password and holds the credentials of that handle and no others,
\* whatever the other handle has added before.
C19_LastWriterWins ==
    (last.op \in AutoSavedOps /\ last.outcome = "ok")
    => LET v == Reopened(password[last.h])
       IN  /\ vault_file.kind = "blob"
           /\ v.error = "none"
           /\ DOMAIN v.credentials = DOMAIN credentials[last.h]
           /\ \A n \in DOMAIN v.credentials :
                 v.credentials[n].value = credentials[last.h][n].value

\* C19's case: handle A has added a credential, handle B has then made an
\* auto-saved change, no call has raised, and the store, which opens, holds
\* nothing under the name A added.
C19_Witness ==
    /\ last.h = "B"
    /\ last.op = "add_credential"
    /\ last.outcome = "ok"
    /\ history_ok
    /\ \E n \in DOMAIN credentials["A"] :
          /\ n \notin DOMAIN credentials["B"]
          /\ n \notin DOMAIN vault_file.data
    /\ Reopened("p1").error = "none"
    /\ DOMAIN Reopened("p1").credentials = DOMAIN credentials["B"]

\* The timestamp fields of the stored record `data` that the load replaces by
\* its own time: created_at and updated_at when missing or corrupt,
\* last_accessed when corrupt (a missing one stays None).
FallbackFields(data) ==
    {f \in {"created_at", "updated_at"} : data[f] = JsonNull \/ data[f] = Corrupt}
    \cup {f \in {"last_accessed"} : data[f] = Corrupt}

\* C20: opening a store that holds records whose created_at, updated_at or
\* last_accessed is missing or corrupt succeeds; every record is loaded with
\* its name, value and metadata, a missing or corrupt created_at or updated_at
\* is the time of the load, and a warning is logged for the fields replaced.
C20_LoadTolerant ==
    (/\ last.op = "Vault"
     /\ config_file.kind = "json"
     /\ decrypts(_derive_key(last.args.password, config_file.salt), vault_file))
    => /\ last.outcome = "none"
       /\ DOMAIN credentials[last.h] = DOMAIN vault_file.data
       /\ \A n \in DOMAIN vault_file.data :
             LET data == vault_file.data[n]
                 c == credentials[last.h][n]
             IN  /\ c.name = data.name
                 /\ c.value = data.value
                 /\ c.metadata = data.metadata
                 /\ "created_at" \in FallbackFields(data) => c.created_at = now
                 /\ "updated_at" \in FallbackFields(data) => c.updated_at = now
                 /\ FallbackFields(data) # {}
                       => \E entry \in last.result : entry[1] = "warning"

\* C21: no call writes a value, the password or the key in the clear to a
\* file: vault.enc and every backup are Fernet tokens, the temp files hold
\* (part of) such a token, and config.json holds a version, a salt and the
\* settings and nothing else.
C21_OnlyCiphertext ==
    /\ vault_file.kind \in {"absent", "blob"}
    /\ \A t \in DOMAIN backups : backups[t].kind = "blob"
    /\ tmp_files \subseteq {"partial", "complete"}
    /\ config_file.kind \in {"absent", "truncated", "json"}
    /\ config_file.kind = "json"
          => /\ DOMAIN config_file = {"kind", "version", "salt", "settings"}
             /\ config_file.salt \in Nat
             /\ DOMAIN config_file.settings
                   = {"log_access", "auto_backup", "backup_count"}

\* C21's case: a vault holding a credential has been backed up.
C21_Witness ==
    /\ last.op = "backup"
    /\ last.outcome = "ok"
    /\ \E t \in DOMAIN backups : DOMAIN backups[t].data # {}
    /\ vault_file.kind = "blob"
    /\ DOMAIN vault_file.data # {}
    /\ config_file.kind = "json"

\* C22: get_credential(name) on a name in the vault returns its value and
\* changes nothing but last_accessed: the names and every record's value,
\* metadata, created_at and updated_at stay.  With log_access on it sets the
\* record's last_accessed to the time of the call and, with auto-save, rewrites
\* the store with it; with log_access off it changes no record and writes
\* nothing.
C22_GetCredentialFrame ==
    [][\A h \in Handles, name \in Names :
        (/\ last'.op = "get_credential"
         /\ last'.h = h
         /\ last'.args.name = name
         /\ open[h]
         /\ name \in DOMAIN credentials[h]
         /\ last'.outcome = "ok")
        => /\ last'.result = credentials[h][name].value
           /\ DOMAIN credentials'[h] = DOMAIN credentials[h]
           /\ \A n \in DOMAIN credentials[h] :
                 /\ credentials'[h][n].value = credentials[h][n].value
                 /\ credentials'[h][n].metadata = credentials[h][n].metadata
                 /\ credentials'[h][n].created_at = credentials[h][n].created_at
                 /\ credentials'[h][n].updated_at = credentials[h][n].updated_at
                 /\ n # name => credentials'[h][n] = credentials[h][n]
           /\ config_file' = config_file
           /\ IF config[h].settings.log_access
              THEN /\ credentials'[h][name].last_accessed = now'
                   /\ IF auto_save[h]
                      THEN (Reopened(password[h]).credentials = credentials[h])'
                      ELSE vault_file' = vault_file
              ELSE /\ credentials' = credentials
                   /\ vault_file' = vault_file
                   /\ tmp_files' = tmp_files]_vars

\* C22's cases: a read with access logging, and a read without.
C22_Witness ==
    /\ last.op = "get_credential"
    /\ last.outcome = "ok"
    /\ config["A"].settings.log_access
    /\ auto_save["A"]
    /\ now > 0
    /\ credentials["A"][last.args.name].last_accessed = now
    /\ credentials["A"][last.args.name].updated_at < now
    /\ vault_file.kind = "blob"
    /\ vault_file.data[last.args.name].last_accessed = isoformat(now)

\* C23: with auto-save on, on an initialised vault (config.json and vault.enc
\* are there), after every successful add_credential, remove_credential,
\* set_metadata and get_credential with access logging, vault.enc decrypts, under
\* the handle's password and the salt in config.json, to exactly the handle's
\* in-memory credentials.
C23_AutoSaveMirrorsMemory ==
    [][\A h \in Handles :
        (/\ last'.op \in AutoSavedOps
         /\ last'.h = h
         /\ last'.outcome = "ok"
         /\ auto_save[h]
         /\ last'.op = "get_credential" => config[h].settings.log_access
         /\ config_file.kind = "json"
         /\ vault_file.kind = "blob")
        => (/\ config_file.kind = "json"
            /\ decrypts(_derive_key(password[h], config_file.salt), vault_file)
            /\ Reopened(password[h]).error = "none"
            /\ Reopened(password[h]).credentials = credentials[h])']_vars

\* C24: on a handle with auto_save=False, add_credential, get_credential,
\* remove_credential and set_metadata leave vault.enc, config.json and every
\* other file as they were, so a new handle sees what it saw before; a
\* successful save() writes the store and the config, and a new handle then
\* holds the handle's credentials.
C24_ManualSave ==
    [][\A h \in Handles :
        /\ (/\ last'.op \in AutoSavedOps
            /\ last'.h = h
            /\ ~auto_save[h])
           => /\ disk' = disk
              /\ (Reopened(password[h]))' = Reopened(password[h])
        /\ (/\ last'.op = "save"
            /\ last'.h = h
            /\ last'.outcome = "ok")
           => /\ vault_file'
                   = encrypt(_derive_key(password[h], config[h].salt),
                             [n \in DOMAIN credentials[h]
                                |-> to_dict(credentials[h][n])])
              /\ config_file' = _save_config(config[h], "none").config_file
              /\ (Reopened(password[h]).error = "none")'
              /\ (Reopened(password[h]).credentials = credentials[h])']_vars

\* C24's case: a credential added and read on a handle without auto-save has
\* reached the store through save().
C24_Witness ==
    /\ last.op = "save"
    /\ last.outcome = "ok"
    /\ ~auto_save["A"]
    /\ vault_file.kind = "blob"
    /\ \E n \in DOMAIN vault_file.data : vault_file.data[n].last_accessed # JsonNull

\* C25: a successful backup() leaves a backup file equal to vault.enc as it is
\* on disk at the call, whatever the handle holds in memory, and leaves
\* vault.enc, config.json and the in-memory credentials as they were; the calls
\* that change the vault afterwards leave every backup file as it is, so a
\* backup still decrypts to what was on disk when it was taken.
C25_BackupIsCopy ==
    [][/\ (last'.op = "backup" /\ last'.outcome = "ok")
          => /\ last'.result \in DOMAIN backups'
             /\ backups'[last'.result] = vault_file
             /\ vault_file' = vault_file
             /\ config_file' = config_file
             /\ tmp_files' = tmp_files
             /\ credentials' = credentials
       /\ last'.op # "backup" => backups' = backups]_vars

\* C25's case: a backup taken while the handle holds credentials the store does
\* not.
C25_Witness ==
    /\ last.op = "backup"
    /\ last.outcome = "ok"
    /\ vault_file.kind = "blob"
    /\ DOMAIN credentials["A"] # DOMAIN vault_file.data
    /\ backups[last.result] = vault_file

\* C26: whenever vault.enc exists, config.json exists too and vault.enc decrypts
\* under the key derived from the open handle's password and the salt in
\* config.json, so that a new handle with that password opens the vault; in
\* particular after a handle made on an empty directory has added a credential
\* with auto-save, without init() or save().
C26_StoreHasConfig ==
    vault_file.kind = "blob"
    => /\ config_file.kind = "json"
       /\ \A h \in Handles :
             open[h] => /\ decrypts(_derive_key(password[h], config_file.salt),
                                    vault_file)
                        /\ Reopened(password[h]).error = "none"

\* C27: when the auto-save inside add_credential, remove_credential,
\* set_metadata or get_credential fails with EncryptionError, the handle's
\* in-memory credentials are the ones it held before the call.
C27_FailedSaveKeepsMemory ==
    [][\A h \in Handles :
        (/\ last'.op \in AutoSavedOps
         /\ last'.h = h
         /\ last'.outcome = "EncryptionError")
        => credentials'[h] = credentials[h]]_vars

\* C28: with two handles on one directory, once one of them has changed the
\* password, whatever the other (still holding the old password and salt)
\* saves afterwards, the vault on disk stays openable: vault.enc decrypts under
\* the old or the new password together with the salt in config.json.
C28_StaleHandleKeepsVaultOpenable ==
    (/\ vault_file.kind = "blob"
     /\ config_file.kind = "json")
    => \E pw \in Passwords :
          /\ decrypts(_derive_key(pw, config_file.salt), vault_file)
          /\ Reopened(pw).error = "none"

\* C29: every successful backup() writes a file whose name no backup file had
\* before the call, and leaves every earlier backup file that remains as it
\* was, also when two calls fall into the same second of the clock: before the
\* pruning there is exactly one file more.
C29_BackupIsNewFile ==
    [][(last'.op = "backup" /\ last'.outcome = "ok")
       => /\ last'.result \notin DOMAIN backups
          /\ \A t \in DOMAIN backups \cap DOMAIN backups' :
                backups'[t] = backups[t]
          /\ Cardinality(DOMAIN backups \cup {last'.result})
                = Cardinality(DOMAIN backups) + 1]_vars

\* The audit action of each LlamaVault call.
AuditAction ==
    [o \in {"LlamaVault.add_credential", "LlamaVault.get_credential",
            "LlamaVault.remove_credential", "LlamaVault.rotate_credential"}
       |-> CASE o = "LlamaVault.add_credential" -> "ADD"
             [] o = "LlamaVault.get_credential" -> "ACCESS"
             [] o = "LlamaVault.remove_credential" -> "REMOVE"
             [] OTHER -> "ROTATE"]

\* C30: every successful add_credential, get_credential, remove_credential and
\* rotate_credential of a LlamaVault appends exactly one entry to the audit log,
\* with the action ADD, ACCESS, REMOVE or ROTATE and the credential's name, and
\* the state change is made by then; a call that fails appends none; the
\* entries written before stay as they are, in their order.
C30_AuditLog ==
    [][/\ Len(audit_log') >= Len(audit_log)
       /\ SubSeq(audit_log', 1, Len(audit_log)) = audit_log
       /\ (last'.op \in DOMAIN AuditAction /\ last'.outcome = "ok")
          => /\ Len(audit_log') = Len(audit_log) + 1
             /\ audit_log'[Len(audit_log')].action = AuditAction[last'.op]
             /\ audit_log'[Len(audit_log')].credential = last'.args.name
             /\ CASE last'.op = "LlamaVault.add_credential"
                        -> /\ last'.args.name \notin DOMAIN credential_files
                           /\ last'.args.name \in DOMAIN credential_files'
                           /\ _decrypt_value(credential_files'[last'.args.name].value)
                                 = last'.args.value
                  [] last'.op = "LlamaVault.remove_credential"
                        -> /\ last'.args.name \in DOMAIN credential_files
                           /\ last'.args.name \notin DOMAIN credential_files'
                  [] last'.op = "LlamaVault.rotate_credential"
                        -> /\ _decrypt_value(credential_files'[last'.args.name].value)
                                 = last'.args.value
                           /\ credential_files'[last'.args.name].version
                                 = credential_files[last'.args.name].version + 1
                  [] OTHER -> credential_files' = credential_files
       /\ (last'.op \in DOMAIN AuditAction /\ last'.outcome # "ok")
          => audit_log' = audit_log
       /\ (last'.op \in DOMAIN AuditAction /\ last'.outcome = "ValueError")
          => credential_files' = credential_files]_vars

\* C30's case: a credential was added, read, rotated and removed, and the log
\* holds the four entries in that order.
C30_Witness ==
    /\ Len(audit_log) = 4
    /\ [i \in 1..4 |-> audit_log[i].action] = <<"ADD", "ACCESS", "ROTATE", "REMOVE">>
    /\ \A i \in 1..4 : audit_log[i].credential = "api-key"
    /\ "api-key" \notin DOMAIN credential_files

====
